---------------------------- MODULE Spec2Model ----------------------------
(***************************************************************************)
(* Model of the url-search-params crate (src/src/lib.rs): the percent      *)
(* codec (encode_uri_component / decode_uri_component), the parser         *)
(* (parse_url_search_params) and the builder (build_url_search_params).    *)
(*                                                                         *)
(* A Rust string is modelled as a sequence of one-character strings, so    *)
(* "%25" is <<"%", "2", "5">>.  A HashMap<String, String> is a function    *)
(* from its keys to its values.                                            *)
(***************************************************************************)
EXTENDS Integers, Sequences, FiniteSets, TLC

VARIABLES
    pc,                 \* position of the modelled caller
    component,          \* argument of encode_uri_component / decode_uri_component
    encoded,            \* result of encode_uri_component(component)
    decoded,            \* result of decode_uri_component
    params,             \* argument of parse_url_search_params
    params_map,         \* HashMap built by the caller / returned by the parser
    order,              \* order in which build_url_search_params iterated the map
    url_search_params,  \* result of build_url_search_params
    parsed_search_params \* result of parsing url_search_params

vars == <<pc, component, encoded, decoded, params, params_map, order,
          url_search_params, parsed_search_params>>

(***************************************************************************)
(* Bounds of the model.                                                    *)
(***************************************************************************)
MaxLen == 5         \* longest component handed to the codec
MaxParamsLen == 5   \* longest query string handed to the parser
MaxChars == 3       \* most characters (keys plus values) held by a built map

\* Characters the codec inputs are drawn from.
CodecChars == {"%", "&", "=", "?", "2", "5", "6", "a"}
\* Characters the parser inputs are drawn from.
ParserChars == {"a", "=", "&", " ", "%", "2", "0"}
\* Characters the keys and values of a built map are drawn from.
BuilderChars == {"a", "A", "2", "6", "%", "&", "="}

StrUpTo(S, n) == UNION {[1..k -> S] : k \in 0..n}

EmptyMap == [k \in {} |-> <<>>]

(***************************************************************************)
(* SYMBOL                                                                  *)
(***************************************************************************)
SYMBOL ==
    [new_line |-> <<"\n">>, carriage_return |-> <<"\r">>,
     whitespace |-> <<" ">>, equals |-> <<"=">>, comma |-> <<",">>,
     slash |-> <<"/">>, semicolon |-> <<";">>, colon |-> <<":">>,
     number_sign |-> <<"#">>, opening_square_bracket |-> <<"[">>,
     closing_square_bracket |-> <<"]">>, quotation_mark |-> <<"\"">>,
     single_quote |-> <<"'">>, percent |-> <<"%">>,
     exclamation_mark |-> <<"!">>, dollar |-> <<"$">>,
     ampersand |-> <<"&">>, opening_bracket |-> <<"(">>,
     closing_bracket |-> <<")">>, asterisk |-> <<"*">>, plus |-> <<"+">>,
     question_mark |-> <<"?">>, at |-> <<"@">>]

\* The UTF-8 byte of each ASCII character the model uses (str's Ord compares bytes).
ByteTable ==
    [c \in {"\n"} |-> 10] @@ [c \in {"\r"} |-> 13] @@
    (" " :> 32) @@ ("!" :> 33) @@ ("\"" :> 34) @@ ("#" :> 35) @@ ("$" :> 36) @@
    ("%" :> 37) @@ ("&" :> 38) @@ ("'" :> 39) @@ ("(" :> 40) @@ (")" :> 41) @@
    ("*" :> 42) @@ ("+" :> 43) @@ ("," :> 44) @@ ("/" :> 47) @@ ("0" :> 48) @@
    ("1" :> 49) @@ ("2" :> 50) @@ ("3" :> 51) @@ ("4" :> 52) @@ ("5" :> 53) @@
    ("6" :> 54) @@ ("7" :> 55) @@ ("8" :> 56) @@ ("9" :> 57) @@ (":" :> 58) @@
    (";" :> 59) @@ ("=" :> 61) @@ ("?" :> 63) @@ ("@" :> 64) @@ ("A" :> 65) @@
    ("B" :> 66) @@ ("C" :> 67) @@ ("D" :> 68) @@ ("E" :> 69) @@ ("F" :> 70) @@
    ("[" :> 91) @@ ("]" :> 93) @@ ("a" :> 97) @@ ("b" :> 98) @@ ("c" :> 99) @@
    ("d" :> 100) @@ ("e" :> 101) @@ ("f" :> 102)

ByteOf(c) == ByteTable[c]

HexDigit == <<"0", "1", "2", "3", "4", "5", "6", "7", "8", "9",
              "A", "B", "C", "D", "E", "F">>

\* "%" followed by the two uppercase hexadecimal digits of c's code point.
PercentHex(c) ==
    <<"%", HexDigit[(ByteOf(c) \div 16) + 1], HexDigit[(ByteOf(c) % 16) + 1]>>

\* The characters encode_uri_component is documented to escape.
EncodeTableChars ==
    {"%", " ", "\r", "\n", "!", "\"", "#", "$", "&", "'", "(", ")", "*",
     "+", ",", "/", ":", ";", "=", "@", "[", "]"}

\* The escaped set: the encode table's characters and '?'.
EscapedSet == EncodeTableChars \cup {"?"}

(***************************************************************************)
(* str::replace: every non-overlapping match of pat, found left to right,  *)
(* is replaced by rep; the replacement text is not scanned again.  A text   *)
(* without the pattern's first character has no match and is returned.     *)
(***************************************************************************)
RECURSIVE Replace(_, _, _)
Replace(s, pat, rep) ==
    IF Len(s) < Len(pat) \/ \A i \in 1..Len(s) : s[i] # pat[1] THEN s
    ELSE IF SubSeq(s, 1, Len(pat)) = pat
         THEN rep \o Replace(SubSeq(s, Len(pat) + 1, Len(s)), pat, rep)
         ELSE <<s[1]>> \o Replace(Tail(s), pat, rep)

\* A chain of `_result = _result.replace(from, to)` statements, in order:
\* each statement's _result is computed before the next statement runs.
RECURSIVE ReplaceAll(_, _)
ReplaceAll(s, steps) ==
    IF steps = <<>> THEN s
    ELSE LET _result == Replace(s, steps[1][1], steps[1][2])
         IN  IF Len(_result) >= 0 THEN ReplaceAll(_result, Tail(steps)) ELSE s

\* The replacements of encode_uri_component, in the order of its statements.
EncodeSteps ==
    << <<SYMBOL.percent, <<"%", "2", "5">> >>,
       <<SYMBOL.whitespace, <<"%", "2", "0">> >>,
       <<SYMBOL.carriage_return, <<"%", "0", "D">> >>,
       <<SYMBOL.new_line, <<"%", "0", "A">> >>,
       <<SYMBOL.exclamation_mark, <<"%", "2", "1">> >>,
       <<SYMBOL.quotation_mark, <<"%", "2", "2">> >>,
       <<SYMBOL.number_sign, <<"%", "2", "3">> >>,
       <<SYMBOL.dollar, <<"%", "2", "4">> >>,
       <<SYMBOL.ampersand, <<"%", "2", "6">> >>,
       <<SYMBOL.single_quote, <<"%", "2", "7">> >>,
       <<SYMBOL.opening_bracket, <<"%", "2", "8">> >>,
       <<SYMBOL.closing_bracket, <<"%", "2", "9">> >>,
       <<SYMBOL.asterisk, <<"%", "2", "A">> >>,
       <<SYMBOL.plus, <<"%", "2", "B">> >>,
       <<SYMBOL.comma, <<"%", "2", "C">> >>,
       <<SYMBOL.slash, <<"%", "2", "F">> >>,
       <<SYMBOL.colon, <<"%", "3", "A">> >>,
       <<SYMBOL.semicolon, <<"%", "3", "B">> >>,
       <<SYMBOL.equals, <<"%", "3", "D">> >>,
       <<SYMBOL.at, <<"%", "4", "0">> >>,
       <<SYMBOL.opening_square_bracket, <<"%", "5", "B">> >>,
       <<SYMBOL.closing_square_bracket, <<"%", "5", "D">> >> >>

\* The replacements of decode_uri_component, in the order of its statements.
DecodeSteps ==
    << << <<"%", "2", "0">>, SYMBOL.whitespace>>,
       << <<"%", "0", "A">>, SYMBOL.new_line>>,
       << <<"%", "0", "D">>, SYMBOL.carriage_return>>,
       << <<"%", "2", "1">>, SYMBOL.exclamation_mark>>,
       << <<"%", "2", "2">>, SYMBOL.quotation_mark>>,
       << <<"%", "2", "3">>, SYMBOL.number_sign>>,
       << <<"%", "2", "4">>, SYMBOL.dollar>>,
       << <<"%", "2", "5">>, SYMBOL.percent>>,
       << <<"%", "2", "6">>, SYMBOL.ampersand>>,
       << <<"%", "2", "7">>, SYMBOL.single_quote>>,
       << <<"%", "2", "8">>, SYMBOL.opening_bracket>>,
       << <<"%", "2", "9">>, SYMBOL.closing_bracket>>,
       << <<"%", "2", "A">>, SYMBOL.asterisk>>,
       << <<"%", "2", "B">>, SYMBOL.plus>>,
       << <<"%", "2", "C">>, SYMBOL.comma>>,
       << <<"%", "2", "F">>, SYMBOL.slash>>,
       << <<"%", "3", "A">>, SYMBOL.colon>>,
       << <<"%", "3", "B">>, SYMBOL.semicolon>>,
       << <<"%", "3", "D">>, SYMBOL.equals>>,
       << <<"%", "3", "F">>, SYMBOL.question_mark>>,
       << <<"%", "4", "0">>, SYMBOL.at>>,
       << <<"%", "5", "B">>, SYMBOL.opening_square_bracket>>,
       << <<"%", "5", "D">>, SYMBOL.closing_square_bracket>> >>

\* encode_uri_component with the '%' replacement moved to the end.
encode_percent_last(s) ==
    ReplaceAll(s, Tail(EncodeSteps) \o <<EncodeSteps[1]>>)

encode_uri_component(s) == ReplaceAll(s, EncodeSteps)

\* decode_uri_component without its "%3D" statement.
decode_without_equals(s) ==
    ReplaceAll(s, SelectSeq(DecodeSteps, LAMBDA st : st[2] # SYMBOL.equals))

\* decode_uri_component that also turns "%2a" (lowercase hex) into '*'.
decode_lowercase_hex(s) ==
    ReplaceAll(s, DecodeSteps \o << << <<"%", "2", "a">>, SYMBOL.asterisk>> >>)

decode_uri_component(s) == ReplaceAll(s, DecodeSteps)

(***************************************************************************)
(* The codec's callers.                                                    *)
(***************************************************************************)
InitCodec ==
    /\ pc = "start"
    /\ component \in StrUpTo(CodecChars, MaxLen) \cup {<<c>> : c \in EscapedSet}
    /\ encoded = <<>>
    /\ decoded = <<>>
    /\ params = <<>>
    /\ params_map = EmptyMap
    /\ order = <<>>
    /\ url_search_params = <<>>
    /\ parsed_search_params = EmptyMap

\* let mut _result = encode_uri_component(component);
Encode ==
    /\ pc = "start"
    /\ encoded' = encode_uri_component(component)
    /\ pc' = "encoded"
    /\ UNCHANGED <<component, decoded, params, params_map, order,
                   url_search_params, parsed_search_params>>

\* _result = decode_uri_component(_result.as_str());
DecodeEncoded ==
    /\ pc = "encoded"
    /\ decoded' = decode_uri_component(encoded)
    /\ pc' = "roundtrip"
    /\ UNCHANGED <<component, encoded, params, params_map, order,
                   url_search_params, parsed_search_params>>

\* decode_uri_component(component) on a caller-supplied text.
Decode ==
    /\ pc = "start"
    /\ decoded' = decode_uri_component(component)
    /\ pc' = "decoded"
    /\ UNCHANGED <<component, encoded, params, params_map, order,
                   url_search_params, parsed_search_params>>

NextCodec == Encode \/ DecodeEncoded \/ Decode

SpecCodec == InitCodec /\ [][NextCodec]_vars


(***************************************************************************)
(* parse_url_search_params                                                 *)
(***************************************************************************)
\* char::is_whitespace, for the ASCII characters (str::trim strips these).
WhiteSpace == {" ", "\t", "\n", "\r", "\f"}

\* params.trim().is_empty()
TrimIsEmpty(s) == \A i \in 1..Len(s) : s[i] \in WhiteSpace

\* str::split on a one-character pattern: the pieces between its occurrences.
RECURSIVE Split(_, _)
Split(s, c) ==
    IF \A i \in 1..Len(s) : s[i] # c THEN <<s>>
    ELSE LET i == CHOOSE j \in 1..Len(s) :
                      s[j] = c /\ \A k \in 1..(j - 1) : s[k] # c
         IN  <<SubSeq(s, 1, i - 1)>> \o Split(SubSeq(s, i + 1, Len(s)), c)

\* key: the first piece of param.split("="), always present.
ParamKey(param) == Split(param, "=")[1]

\* value: the second piece of param.split("="), "" when there is none.
ParamValue(param) ==
    LET key_value == Split(param, "=")
    IN  IF Len(key_value) >= 2 THEN key_value[2] ELSE <<>>

\* HashMap::insert that leaves an entry already present as it is.
InsertKeepFirst(m, k, v) ==
    [x \in DOMAIN m \cup {k} |-> IF x \in DOMAIN m THEN m[x] ELSE v]

\* HashMap::insert: a key already present gets the new value.
HashMapInsert(m, k, v) ==
    [x \in DOMAIN m \cup {k} |-> IF x = k THEN v ELSE m[x]]

\* A guard that lets every token through.
AnyKey(key) == TRUE

\* if !key.is_empty()
KeyNotEmpty(key) == key # <<>>

\* The for loop over params.split("&").
RECURSIVE ParseLoop(_, _)
ParseLoop(m, split_iter) ==
    IF split_iter = <<>> THEN m
    ELSE LET param == split_iter[1]
             key == ParamKey(param)
             value == ParamValue(param)
         IN  ParseLoop(IF KeyNotEmpty(key)
                       THEN HashMapInsert(m, decode_uri_component(key),
                                          decode_uri_component(value))
                       ELSE m,
                       Tail(split_iter))

parse_url_search_params(s) ==
    IF TrimIsEmpty(s) THEN EmptyMap
    ELSE ParseLoop(EmptyMap, Split(s, "&"))

InitParser ==
    /\ pc = "start"
    /\ params \in StrUpTo(ParserChars, MaxParamsLen)
    /\ params_map = EmptyMap
    /\ component = <<>>
    /\ encoded = <<>>
    /\ decoded = <<>>
    /\ order = <<>>
    /\ url_search_params = <<>>
    /\ parsed_search_params = EmptyMap

\* let params = parse_url_search_params(search_params);
Parse ==
    /\ pc = "start"
    /\ params_map' = parse_url_search_params(params)
    /\ pc' = "parsed"
    /\ UNCHANGED <<component, encoded, decoded, params, order,
                   url_search_params, parsed_search_params>>

NextParser == Parse

SpecParser == InitParser /\ [][NextParser]_vars

(***************************************************************************)
(* build_url_search_params                                                 *)
(***************************************************************************)
\* str::to_lowercase, for ASCII: 'A'..'Z' become 'a'..'z'.
ToLowercase(s) ==
    [i \in 1..Len(s) |->
        IF ByteOf(s[i]) \in 65..90
        THEN CHOOSE c \in DOMAIN ByteTable : ByteTable[c] = ByteOf(s[i]) + 32
        ELSE s[i]]

\* a.cmp(&b) # Greater for strings: lexicographic on the bytes.
RECURSIVE StrLeq(_, _)
StrLeq(a, b) ==
    IF a = <<>> THEN TRUE
    ELSE IF b = <<>> THEN FALSE
    ELSE IF ByteOf(a[1]) # ByteOf(b[1]) THEN ByteOf(a[1]) < ByteOf(b[1])
    ELSE StrLeq(Tail(a), Tail(b))

\* The comparator of sort_by: a.to_lowercase().cmp(&b.to_lowercase()) # Greater.
LowercaseLeq(a, b) == StrLeq(ToLowercase(a), ToLowercase(b))

\* x put into a sorted list after every element that is not greater than it.
InsertSorted(sorted, x) ==
    LET n == Cardinality({i \in 1..Len(sorted) : LowercaseLeq(sorted[i], x)})
    IN  SubSeq(sorted, 1, n) \o <<x>> \o SubSeq(sorted, n + 1, Len(sorted))

\* slice::sort_by is a stable sort: equal elements keep their order.
RECURSIVE SortBy(_)
SortBy(list) ==
    IF list = <<>> THEN <<>>
    ELSE InsertSorted(SortBy(SubSeq(list, 1, Len(list) - 1)), list[Len(list)])

\* [String]::join(sep)
RECURSIVE Join(_, _)
Join(list, sep) ==
    IF list = <<>> THEN <<>>
    ELSE IF Len(list) = 1 THEN list[1]
    ELSE list[1] \o sep \o Join(Tail(list), sep)

\* The pair-strings joined with nothing between them.
JoinNoSeparator(key_value_list) == Join(key_value_list, <<>>)

\* key_value_list.join("&")
JoinPairs(key_value_list) == Join(key_value_list, <<"&">>)

\* [encode(key), "=", encode(value)].join("")
Param(key, value) ==
    encode_uri_component(key) \o <<"=">> \o encode_uri_component(value)

\* The orders in which `for (key, value) in params` may visit the entries.
IterationOrders(m) ==
    {o \in [1..Cardinality(DOMAIN m) -> DOMAIN m] :
        \A i, j \in DOMAIN o : o[i] = o[j] => i = j}

\* build_url_search_params(m) when the map is iterated in the order o.
build_url_search_params(m, o) ==
    LET key_value_list == [i \in 1..Len(o) |-> Param(o[i], m[o[i]])]
    IN  JoinPairs(SortBy(key_value_list))

\* Whether key a comes before key b: shorter first, then by bytes.
KeyBefore(a, b) ==
    \/ Len(a) < Len(b)
    \/ Len(a) = Len(b) /\ a # b /\ StrLeq(a, b)

\* The maps that extend m by entries of at most room characters in all, each
\* new key coming after the keys already there (so each map is built once).
RECURSIVE MapsFrom(_, _)
MapsFrom(m, room) ==
    {m} \cup UNION
        {MapsFrom(HashMapInsert(m, kv[1], kv[2]), room - Len(kv[1]) - Len(kv[2])) :
            kv \in UNION {{<<k, v>> : v \in StrUpTo(BuilderChars, room - Len(k))} :
                            k \in {x \in StrUpTo(BuilderChars, room) :
                                     \A y \in DOMAIN m : KeyBefore(y, x)}}}

\* let mut params_map: HashMap<String, String> = HashMap::new(); followed by
\* the caller's params_map.insert(key, value) calls.
InitBuilder ==
    /\ pc = "start"
    /\ params_map \in MapsFrom(EmptyMap, MaxChars)
    /\ params = <<>>
    /\ component = <<>>
    /\ encoded = <<>>
    /\ decoded = <<>>
    /\ order = <<>>
    /\ url_search_params = <<>>
    /\ parsed_search_params = EmptyMap

\* let search_params = build_url_search_params(params_map);
Build ==
    /\ pc = "start"
    /\ \E o \in IterationOrders(params_map) :
         /\ order' = o
         /\ url_search_params' = build_url_search_params(params_map, o)
    /\ pc' = "built"
    /\ UNCHANGED <<component, encoded, decoded, params, params_map,
                   parsed_search_params>>

\* let parsed_search_params = parse_url_search_params(&search_params);
ParseBuilt ==
    /\ pc = "built"
    /\ parsed_search_params' = parse_url_search_params(url_search_params)
    /\ pc' = "parsed"
    /\ UNCHANGED <<component, encoded, decoded, params, params_map, order,
                   url_search_params>>

NextBuilder == Build \/ ParseBuilt

SpecBuilder == InitBuilder /\ [][NextBuilder]_vars

(***************************************************************************)
(* Reference notions the codec properties are stated with.                 *)
(***************************************************************************)
\* The escape codes decode_uri_component is documented to know.
KnownCodes == {PercentHex(c) : c \in EscapedSet}

EscapeOf(c) == IF c \in EncodeTableChars THEN PercentHex(c) ELSE <<c>>

RECURSIVE Flatten(_)
Flatten(ss) == IF ss = <<>> THEN <<>> ELSE ss[1] \o Flatten(Tail(ss))

IsSubstring(p, s) ==
    \E i \in 1..(Len(s) - Len(p) + 1) : SubSeq(s, i, i + Len(p) - 1) = p

\* One left-to-right pass that decodes each known code once.
RECURSIVE SinglePassDecode(_)
SinglePassDecode(s) ==
    IF s = <<>> THEN <<>>
    ELSE IF Len(s) >= 3 /\ SubSeq(s, 1, 3) \in KnownCodes
         THEN LET c == CHOOSE x \in EscapedSet : PercentHex(x) = SubSeq(s, 1, 3)
              IN  <<c>> \o SinglePassDecode(SubSeq(s, 4, Len(s)))
         ELSE <<s[1]>> \o SinglePassDecode(Tail(s))

\* Letters and digits: what follows '%' in a percent sequence.
AlphaNum == {c \in DOMAIN ByteTable : \/ ByteTable[c] \in 48..57
                                      \/ ByteTable[c] \in 65..90
                                      \/ ByteTable[c] \in 97..122}

\* The percent sequences of s that are not in the decode table.
UnknownSequences(s) ==
    {SubSeq(s, i, i + 2) : i \in {j \in 1..(Len(s) - 2) :
        /\ s[j] = "%"
        /\ s[j + 1] \in AlphaNum
        /\ s[j + 2] \in AlphaNum
        /\ SubSeq(s, j, j + 2) \notin KnownCodes}}

\* The text the last call of decode_uri_component was given.
DecodeInput == IF pc = "roundtrip" THEN encoded ELSE component

(***************************************************************************)
(* C3: for every string s made only of characters of the escaped set (the  *)
(* 22 characters of the encode table, and '?'),                            *)
(* decode_uri_component(encode_uri_component(s)) = s.                      *)
(***************************************************************************)
C3_EncodeDecodeRoundTrip ==
    (pc = "roundtrip" /\ \A i \in 1..Len(component) : component[i] \in EscapedSet)
        => decoded = component

C3_Witness ==
    /\ pc = "roundtrip"
    /\ component = <<"%", "&", "?", "=">>
    /\ encoded = <<"%", "2", "5", "%", "2", "6", "?", "%", "3", "D">>
    /\ decoded = component

(***************************************************************************)
(* C6: encode_uri_component acts character by character: its output is the *)
(* concatenation, in order, of the image of each input character, where a  *)
(* character of the encode table maps to '%' and its two uppercase hex     *)
(* digits and every other character ('?' included) maps to itself; a '%'   *)
(* introduced by one replacement is never escaped again.                   *)
(***************************************************************************)
C6_EncodeIsCharacterwise ==
    pc = "encoded" =>
        encoded = Flatten([i \in 1..Len(component) |-> EscapeOf(component[i])])

C6_Witness ==
    /\ pc = "encoded"
    /\ component = <<"%", "&", "?", "a">>
    /\ encoded = <<"%", "2", "5", "%", "2", "6", "?", "a">>

(***************************************************************************)
(* C8: decode_uri_component leaves percent sequences that are not in the   *)
(* decode table untouched: an input holding none of the 23 known codes is  *)
(* returned as it is, every unknown sequence of the input still appears in *)
(* the output, and decode returns a string for every input.                *)
(***************************************************************************)
C8_UnknownSequencesUntouched ==
    pc \in {"decoded", "roundtrip"} =>
        /\ (\A code \in KnownCodes : ~IsSubstring(code, DecodeInput))
               => decoded = DecodeInput
        /\ \A u \in UnknownSequences(DecodeInput) : IsSubstring(u, decoded)
        /\ decoded \in Seq(DOMAIN ByteTable)

C8_Witness ==
    /\ pc = "decoded"
    /\ component = <<"%", "2", "a", "%">>
    /\ decoded = component

(***************************************************************************)
(* C9: decode_uri_component applies the %25-to-'%' substitution last, so a *)
(* '%' produced by decoding "%25" never starts another escape code: no     *)
(* text is decoded twice ("%2526" gives "%26", not "&").                   *)
(***************************************************************************)
C9_NeverDecodedTwice ==
    pc \in {"decoded", "roundtrip"} => decoded = SinglePassDecode(DecodeInput)

(***************************************************************************)
(* Reference notions the parser and builder properties are stated with.    *)
(***************************************************************************)
\* The '&'-separated tokens of the parser's input.
Tokens == Split(params, "&")

\* The position of the first '=' of a token, 0 when it holds none.
FirstEquals(tok) ==
    IF \A i \in 1..Len(tok) : tok[i] # "=" THEN 0
    ELSE CHOOSE i \in 1..Len(tok) : tok[i] = "=" /\ \A k \in 1..(i - 1) : tok[k] # "="

\* The text of a token before its first '='.
BeforeFirstEquals(tok) ==
    IF FirstEquals(tok) = 0 THEN tok ELSE SubSeq(tok, 1, FirstEquals(tok) - 1)

\* All the text of a token after its first '=', further '=' included.
AfterFirstEquals(tok) ==
    IF FirstEquals(tok) = 0 THEN <<>> ELSE SubSeq(tok, FirstEquals(tok) + 1, Len(tok))

\* The key a token stands for: its raw key, decoded.
DecodedKey(tok) == decode_uri_component(BeforeFirstEquals(tok))

\* The tokens that add an entry: those whose raw key is not empty.
KeyedTokens == {i \in 1..Len(Tokens) : BeforeFirstEquals(Tokens[i]) # <<>>}

\* The last token, left to right, with the same decoded key as token i.
LastWithKeyOf(i) ==
    CHOOSE j \in KeyedTokens :
        /\ DecodedKey(Tokens[j]) = DecodedKey(Tokens[i])
        /\ \A k \in KeyedTokens :
               DecodedKey(Tokens[k]) = DecodedKey(Tokens[i]) => k <= j

\* Every character of the keys and values of m is outside the encode table
\* (which holds '%', '&' and '=').
Unreserved(m) ==
    \A k \in DOMAIN m :
        /\ \A i \in 1..Len(k) : k[i] \notin EncodeTableChars
        /\ \A i \in 1..Len(m[k]) : m[k][i] \notin EncodeTableChars

(***************************************************************************)
(* C1 (as stated): for every mapping m whose keys and values hold only     *)
(* characters outside the reserved set, parse(build(m)) equals m, whatever *)
(* order the entries of m are iterated in.                                 *)
(***************************************************************************)
C1_RoundTripUnreserved ==
    (pc = "parsed" /\ Unreserved(params_map))
        => parsed_search_params = params_map

(***************************************************************************)
(* C1 (amended): for every mapping m with non-empty keys whose keys and    *)
(* values hold only characters outside the reserved set, parse(build(m))   *)
(* equals m, whatever order the entries of m are iterated in.              *)
(***************************************************************************)
C1_RoundTripUnreservedNonEmptyKeys ==
    (pc = "parsed" /\ Unreserved(params_map) /\ <<>> \notin DOMAIN params_map)
        => parsed_search_params = params_map

C1_Witness ==
    /\ pc = "parsed"
    /\ params_map = (<<"a">> :> <<"A">>) @@ (<<"A">> :> <<>>)
    /\ order = << <<"a">>, <<"A">> >>
    /\ url_search_params = <<"A", "=", "&", "a", "=", "A">>
    /\ parsed_search_params = params_map

(***************************************************************************)
(* C2: for every mapping m with non-empty keys, whose keys and values may  *)
(* hold characters of the encode table (literal '&', '=' and '%' among     *)
(* them) mixed with ordinary characters, parse(build(m)) maps each key of  *)
(* m to its original value and holds no other key.                         *)
(***************************************************************************)
C2_RoundTripReserved ==
    (pc = "parsed" /\ <<>> \notin DOMAIN params_map)
        => parsed_search_params = params_map

(***************************************************************************)
(* C4: each '&'-separated token is split on its first '=' only: the raw    *)
(* key is the text before it and the raw value is all the text after it,   *)
(* further '=' included ("a=b=c" gives key "a" and value "b=c"); a token   *)
(* with no '=' has the empty value.  So the entry of the last token with a *)
(* given key holds the decoding of all the text after its first '='.       *)
(***************************************************************************)
C4_SplitOnFirstEqualsOnly ==
    (pc = "parsed" /\ ~TrimIsEmpty(params)) =>
        \A i \in KeyedTokens :
            LastWithKeyOf(i) = i =>
                /\ DecodedKey(Tokens[i]) \in DOMAIN params_map
                /\ params_map[DecodedKey(Tokens[i])]
                       = decode_uri_component(AfterFirstEquals(Tokens[i]))

(***************************************************************************)
(* C5: the mapping returned by parse_url_search_params never holds the     *)
(* empty string as a key: a token whose raw key is empty adds no entry,    *)
(* while the well-formed key=value tokens of the same input are inserted   *)
(* ("=&key2=value2" yields exactly {key2: value2}).                        *)
(***************************************************************************)
C5_NoEmptyKey ==
    pc = "parsed" =>
        /\ <<>> \notin DOMAIN params_map
        /\ \A k \in DOMAIN params_map :
               \E i \in KeyedTokens : DecodedKey(Tokens[i]) = k
        /\ \A i \in KeyedTokens :
               FirstEquals(Tokens[i]) # 0 => DecodedKey(Tokens[i]) \in DOMAIN params_map

C5_Witness ==
    /\ pc = "parsed"
    /\ params = <<"=", "&", "a", "=", "0">>
    /\ params_map = (<<"a">> :> <<"0">>)

C10_BuildDeterministic ==
    pc \in {"built", "parsed"} =>
        \A o \in IterationOrders(params_map) :
            build_url_search_params(params_map, o) = url_search_params

=============================================================================
